---- MODULE Spec2Model ----
(***************************************************************************)
(* The reminder plugin (reminder/bot.py): the reminder loop, the delivery  *)
(* tasks it spawns, the remind command and the handlers that change a      *)
(* reminder's recipients, over a discrete wall clock.                      *)
(*                                                                         *)
(* Time is counted in clock units.  A second has UsPerSec units (the       *)
(* resolution datetime.now() has below the second) and a minute has        *)
(* SecPerMin seconds; both are scaled down so that several minutes fit in  *)
(* the explored horizon.  Every asyncio task runs from one suspension      *)
(* point (await of a sleep, of the transport) to the next in one step;     *)
(* the clock advances between steps.                                       *)
(***************************************************************************)
EXTENDS Integers, Sequences, FiniteSets, Bags, TLC

(* log is the line the plugin logged last *)
VARIABLES clock, started, loop, store, hist, tasks, cmd, nCmd, lastImm, log

vars == <<clock, started, loop, store, hist, tasks, cmd, nCmd, lastImm, log>>

-----------------------------------------------------------------------------
(* Bounds of the exploration *)

UsPerSec == 2
SecPerMin == 2
MaxClock == 8
MaxReminds == 1

Users == {"u1", "u2"}

(* who issues the remind commands *)
Senders == {"u1"}

(* who reacts to the confirmations *)
Reactors == {"u2"}

Rooms == {"ra", "rb"}

(* the rooms the remind commands are issued in *)
CmdRooms == {"ra"}

(* the message argument of the remind commands: they are given without a   *)
(* message                                                                  *)
Messages == {""}

(* datetime.minute is the minute of the hour *)
MinPerHour == 60

MinLen == SecPerMin * UsPerSec

-----------------------------------------------------------------------------
(* Date arithmetic of bot.py *)

(* datetime.replace(microsecond=0) *)
TruncSec(t) == t - (t % UsPerSec)

(* datetime.replace(second=0, microsecond=0) *)
TruncMin(t) == t - (t % MinLen)

NextMinute_NoTrunc(now) == now + MinLen

(* next_minute = (now + timedelta(minutes=1)).replace(second=0, microsecond=0) *)
NextMinute(now) == TruncMin(now + MinLen)

Until_TwoMinutes(now) == now + 2 * MinLen

(* until = now + timedelta(minutes=1) *)
Until(now) == now + MinLen

(* datetime.minute *)
MinuteOf(t) == (t \div MinLen) % MinPerHour

InPast_OffBySecond(date, now) == date + UsPerSec < now

(* date < now, the check of remind for a date in the past *)
InPast(date, now) == date < now

IsNow_WithinSecond(date, now) == date <= now + UsPerSec

(* date == now, the check of remind for the immediate delivery *)
IsNow(date, now) == date = now

(* (date - now).total_seconds() < 60 and now.minute == date.minute *)
InSameMinute(date, now) == (date - now) < MinLen /\ MinuteOf(now) = MinuteOf(date)

(* remind without a reply reference: an empty message becomes "ping" *)
PingIfEmpty(message) == IF message = "" THEN "ping" ELSE message

(* len(reminder.users) == 0 *)
NoUsers(users) == DOMAIN users = {}

Wait_Reversed(date, now) == now - date

(* wait = (reminder.date - datetime.now(tz=pytz.UTC)).total_seconds() *)
Wait(date, now) == date - now

(* _send_reminder up to its first suspension: the emptiness check on the   *)
(* ReminderInfo it was given, then the residual gap                        *)
AfterCheck(users, date, now) ==
    IF NoUsers(users) THEN "dropped"
    ELSE IF Wait(date, now) > 0 THEN "sleeping"
    ELSE "sending"

-----------------------------------------------------------------------------
(* The store (ReminderDatabase): a sequence of reminders, the id of a      *)
(* reminder being its index                                                *)


Ids == 1..Len(store)

(* db.all_in_range(from, to): the ids with from <= date < to *)
AllInRange(from, to) == {r \in Ids : from <= store[r].date /\ store[r].date < to}

(* db.insert(rem) *)
Insert(rem) == Append(store, rem)

(* db.get_by_event_id(event_id): the matching ids (none or one) *)
GetByEventId(e) == {r \in Ids : store[r].event_id = e}

(* db.add_user(reminder, user, marker) *)
AddUser(r, u, m) ==
    IF u \in DOMAIN store[r].users THEN store
    ELSE [store EXCEPT ![r].users =
            [x \in DOMAIN store[r].users \cup {u} |->
                IF x = u THEN m ELSE store[r].users[x]]]

(* db.get(id): the matching ids (none or one) *)
Get(id) == {r \in Ids : r = id}

(* db.remove_user(None, user): what the call does when it is handed the    *)
(* not-found value instead of a reminder is not fixed by the store's        *)
(* contract: it returns False or it raises                                  *)
RemoveUserOfNone == {"false", "raises"}

(* db.remove_user(reminder, user) *)
RemoveUser(r, u) ==
    [store EXCEPT ![r].users = [x \in DOMAIN store[r].users \ {u} |-> store[r].users[x]]]

(* db.redact_event(marker): drops the recipient enrolled by that marker *)
RedactEvent(m) ==
    [r \in Ids |->
        [store[r] EXCEPT !.users =
            [x \in {y \in DOMAIN store[r].users : store[r].users[y] # m} |->
                store[r].users[x]]]]

(* db.update_room_id(old, new) *)
UpdateRoomId(old, new) ==
    [r \in Ids |->
        [store[r] EXCEPT !.room_id = IF @ = old THEN new ELSE @]]

CmdMarker(n) == [kind |-> "cmd", user |-> "-", n |-> n]
ReactMarker(u, n) == [kind |-> "react", user |-> u, n |-> n]

-----------------------------------------------------------------------------
(* Delivery tasks: asyncio.ensure_future(self.send_reminder(reminder)).    *)
(* A task holds the ReminderInfo it was given; origin and live are history *)
(* (who spawned it; whether the stored recipient set was non-empty when    *)
(* the task made its emptiness check)                                      *)

NewTask(r, rem, origin) ==
    [rid |-> r, date |-> rem.date, room_id |-> rem.room_id,
     message |-> rem.message, users |-> rem.users,
     pc |-> "start", origin |-> origin, live |-> TRUE]

(* asyncio.ensure_future(...): the pending tasks are a bag of task states *)
Spawn(bag, t) == bag (+) SetToBag({t})

Finish(bag, t) == bag (-) SetToBag({t})

Tasks == BagToSet(tasks)

SpawnAll_OnlyFirst(bag, rs) ==
    IF rs = {} THEN bag
    ELSE LET r == CHOOSE x \in rs : \A y \in rs : x <= y
         IN  Spawn(bag, NewTask(r, store[r], "loop"))

(* for reminder in self.db.all_in_range(now, until): ensure_future(...) *)
RECURSIVE SpawnAll(_, _)
SpawnAll(bag, rs) ==
    IF rs = {} THEN bag
    ELSE LET r == CHOOSE x \in rs : \A y \in rs : x <= y
         IN  SpawnAll(Spawn(bag, NewTask(r, store[r], "loop")), rs \ {r})

(* schedule_nearby_reminders(now): one task per reminder of the window *)
ScheduleNearbyReminders(now) == SpawnAll(tasks, AllInRange(now, Until(now)))

Rendered_FromStore(t) ==
    IF t.rid \in Ids THEN DOMAIN store[t.rid].users ELSE DOMAIN t.users

(* users = " ".join(reminder.users): the recipients the message addresses *)
Rendered(t) == DOMAIN t.users

AwaitedByLoop_AllTasks(bag) == BagToSet(bag)

(* the delivery tasks the loop waits for before it sleeps again: they are  *)
(* made with ensure_future and never awaited                                *)
AwaitedByLoop(bag) == {}

FailureOutcome_Propagates == "raised"

(* send_reminder: what a failure of _send_reminder turns into *)
FailureOutcome == "logged"

NewHist(shortcut) ==
    [sent |-> 0, rendered |-> {}, dispatched |-> 0, shortcut |-> shortcut,
     late |-> cmd.date < clock, atStart |-> FALSE]

IdleCmd ==
    [pc |-> "idle", n |-> 0, sender |-> "-", room_id |-> "-", message |-> "-",
     date |-> 0]

-----------------------------------------------------------------------------
Init ==
    /\ clock = 0
    /\ started = FALSE
    /\ loop = [pc |-> "none", next_minute |-> 0]
    /\ store = <<>>
    /\ hist = <<>>
    /\ tasks = EmptyBag
    /\ cmd = IdleCmd
    /\ nCmd = 0
    /\ lastImm = "none"
    /\ log = ""

(* the wall clock advances *)
Tick ==
    /\ clock < MaxClock
    /\ clock' = clock + 1
    /\ UNCHANGED <<started, loop, store, hist, tasks, cmd, nCmd,
                   lastImm, log>>

(* history: the reminders that are still to be delivered when the plugin   *)
(* starts: the date is not past, nothing was sent, no task is pending       *)
Pending(r) ==
    /\ store[r].date >= clock
    /\ hist[r].dispatched = 0
    /\ hist[r].sent = 0
    /\ \A t \in Tasks : t.rid # r

(* start(): the reminder loop is created and runs to its first sleep *)
Start ==
    /\ ~started
    /\ started' = TRUE
    /\ loop' = [pc |-> "sleeping", next_minute |-> NextMinute(clock)]
    /\ hist' = [r \in Ids |-> [hist[r] EXCEPT !.atStart = Pending(r)]]
    /\ UNCHANGED <<clock, store, tasks, cmd, nCmd, lastImm, log>>

TasksAfterStop_AllCancelled(bag) == EmptyBag

(* stop() cancels reminder_loop_task only: the delivery tasks stay pending *)
TasksAfterStop(bag) == bag

(* stop(): reminder_loop_task.cancel(); CancelledError is raised in the sleep *)
Stop ==
    /\ started
    /\ started' = FALSE
    /\ loop' = IF loop.pc = "sleeping" THEN [pc |-> "stopped", next_minute |-> 0]
               ELSE loop
    /\ tasks' = TasksAfterStop(tasks)
    /\ UNCHANGED <<clock, store, hist, cmd, nCmd, lastImm, log>>

(* the process ends: the loop, the tasks and the running command are gone, *)
(* the store remains                                                       *)
ProcessExit ==
    /\ loop.pc # "none"
    /\ started' = FALSE
    /\ loop' = [pc |-> "none", next_minute |-> 0]
    /\ tasks' = EmptyBag
    /\ cmd' = IdleCmd
    /\ UNCHANGED <<clock, store, hist, nCmd, lastImm, log>>

(* reminder_loop: the sleep returns, the window is scanned, the next sleep *)
(* is computed                                                             *)
ReminderLoopTick ==
    /\ loop.pc = "sleeping"
    /\ clock >= loop.next_minute
    /\ AwaitedByLoop(tasks) = {}
    /\ tasks' = ScheduleNearbyReminders(loop.next_minute)
    /\ hist' = [r \in Ids |->
                  [hist[r] EXCEPT
                     !.dispatched = IF r \in AllInRange(loop.next_minute, Until(loop.next_minute))
                                    THEN @ + 1 ELSE @]]
    /\ loop' = [loop EXCEPT !.next_minute = NextMinute(clock)]
    /\ UNCHANGED <<clock, started, store, cmd, nCmd, lastImm, log>>

(* reminder_loop: the scan raises (the store's range query fails); the     *)
(* handler around the while loop logs it and the coroutine returns         *)
ReminderLoopFault ==
    /\ loop.pc = "sleeping"
    /\ clock >= loop.next_minute
    /\ loop' = [pc |-> "crashed", next_minute |-> 0]
    /\ log' = "Exception in reminder loop"
    /\ UNCHANGED <<clock, started, store, hist, tasks, cmd, nCmd,
                   lastImm>>

-----------------------------------------------------------------------------
(* Delivery tasks, one step per suspension point of _send_reminder *)

(* first step of the task: the emptiness check and the residual gap *)
TaskStart(t) ==
    /\ t.pc = "start"
    /\ LET next == AfterCheck(t.users, t.date, clock)
       IN  tasks' = IF next = "dropped" THEN Finish(tasks, t)
                    ELSE Spawn(Finish(tasks, t),
                               [t EXCEPT !.pc = next,
                                         !.live = ~NoUsers(store[t.rid].users)])
    /\ UNCHANGED <<clock, started, loop, store, hist, cmd, nCmd,
                   lastImm, log>>

(* asyncio.sleep(wait) returns; the message is handed to the transport *)
TaskWake(t) ==
    /\ t.pc = "sleeping"
    /\ clock >= t.date
    /\ tasks' = Spawn(Finish(tasks, t), [t EXCEPT !.pc = "sending"])
    /\ UNCHANGED <<clock, started, loop, store, hist, cmd, nCmd,
                   lastImm, log>>

(* client.send_message returns; on the immediate path remind returns too *)
TaskSent(t) ==
    /\ t.pc = "sending"
    /\ tasks' = Finish(tasks, t)
    /\ IF t.origin = "sync"
       THEN /\ lastImm' = "sent"
            /\ cmd' = IdleCmd
            /\ hist' = hist
       ELSE /\ hist' = [hist EXCEPT ![t.rid].sent = @ + 1,
                                    ![t.rid].rendered = Rendered(t)]
            /\ UNCHANGED <<cmd, lastImm>>
    /\ UNCHANGED <<clock, started, loop, store, nCmd, log>>

(* client.get_event or client.send_message raises: send_reminder logs it   *)
TaskFailed(t) ==
    /\ t.pc = "sending"
    /\ tasks' = Finish(tasks, t)
    /\ log' = IF FailureOutcome = "logged" THEN "Failed to send reminder" ELSE log
    /\ IF t.origin = "sync"
       THEN /\ lastImm' = "failed"
            /\ cmd' = IF FailureOutcome = "logged" THEN IdleCmd
                      ELSE [cmd EXCEPT !.pc = "raised"]
       ELSE UNCHANGED <<cmd, lastImm>>
    /\ UNCHANGED <<clock, started, loop, store, hist, nCmd>>

-----------------------------------------------------------------------------
(* The remind command *)

(* remind up to its first suspension: the reply for a date in the past,    *)
(* send_reminder(rem) awaited in place for a date equal to now (it runs to *)
(* its sleep or to the transport's send), or the confirmation              *)
RemindStart(u, rm, d, message) ==
    /\ started
    /\ cmd.pc = "idle"
    /\ nCmd < MaxReminds
    /\ nCmd' = nCmd + 1
    /\ LET date == TruncSec(d)
           now == TruncSec(clock)
           n == nCmd + 1
           users == [x \in {u} |-> CmdMarker(n)]
           next == AfterCheck(users, date, clock)
           sync == [rid |-> 0, date |-> date, room_id |-> rm, message |-> message,
                    users |-> users, pc |-> next, origin |-> "sync", live |-> TRUE]
       IN  IF InPast(date, now)
           THEN /\ cmd' = [pc |-> "rejecting", n |-> n, sender |-> u,
                           room_id |-> rm, message |-> "-", date |-> date]
                /\ tasks' = tasks
           ELSE IF IsNow(date, now)
           THEN /\ cmd' = [pc |-> IF next = "dropped" THEN "idle" ELSE "awaiting",
                           n |-> n, sender |-> u, room_id |-> rm, message |-> "-",
                           date |-> date]
                /\ tasks' = IF next = "dropped" THEN tasks ELSE Spawn(tasks, sync)
           ELSE /\ cmd' = [pc |-> "replying", n |-> n, sender |-> u,
                           room_id |-> rm, message |-> PingIfEmpty(message),
                           date |-> date]
                /\ tasks' = tasks
    /\ UNCHANGED <<clock, started, loop, store, hist, lastImm, log>>

(* the reply "... is in the past ..." is sent; remind returns *)
RemindRejected ==
    /\ cmd.pc = "rejecting"
    /\ cmd' = IdleCmd
    /\ UNCHANGED <<clock, started, loop, store, hist, tasks, nCmd,
                   lastImm, log>>

(* the transport posts the confirmation; remind is still suspended in      *)
(* evt.reply                                                               *)
ReplyDelivered ==
    /\ cmd.pc = "replying"
    /\ cmd' = [cmd EXCEPT !.pc = "replied"]
    /\ UNCHANGED <<clock, started, loop, store, hist, tasks, nCmd,
                   lastImm, log>>

(* the pc at which remind calls db.insert(rem) *)
InsertPoint_BeforeReply == "replying"

(* db.insert(rem) is called once evt.reply has returned *)
InsertPoint == "replied"

(* evt.reply returns the event id: db.insert(rem), then the shortcut for a *)
(* date in the current minute; remind returns                              *)
RemindInsert ==
    /\ cmd.pc = InsertPoint
    /\ LET rem == [date |-> cmd.date, room_id |-> cmd.room_id,
                   message |-> cmd.message, event_id |-> cmd.n,
                   users |-> [x \in {cmd.sender} |-> CmdMarker(cmd.n)]]
           shortcut == InSameMinute(cmd.date, clock)
       IN  /\ store' = Insert(rem)
           /\ hist' = Append(hist, NewHist(shortcut))
           /\ tasks' = IF shortcut
                       THEN Spawn(tasks, NewTask(Len(store) + 1, rem, "remind"))
                       ELSE tasks
    /\ cmd' = IdleCmd
    /\ UNCHANGED <<clock, started, loop, nCmd, lastImm, log>>

-----------------------------------------------------------------------------
(* Handlers that change the recipients *)

(* cancel: reminder = db.get(id) goes to db.remove_user(reminder,           *)
(* evt.sender) unexamined; the reply depends on what remove_user returns    *)
Cancel(u, id) ==
    /\ started
    /\ IF Get(id) = {}
       THEN /\ store' = store
            /\ \E outcome \in RemoveUserOfNone :
                  log' = IF outcome = "raises"
                         THEN "Unhandled exception in cancel"
                         ELSE log
       ELSE /\ \E r \in Get(id) :
                  /\ u \in DOMAIN store[r].users
                  /\ store' = RemoveUser(r, u)
            /\ log' = log
    /\ UNCHANGED <<clock, started, loop, hist, tasks, cmd, nCmd, lastImm>>

(* subscribe_react: a reaction of u to the confirmation of command n *)
SubscribeReact(u, n) ==
    /\ started
    /\ \E r \in GetByEventId(n) :
          /\ u \notin DOMAIN store[r].users
          /\ store' = AddUser(r, u, ReactMarker(u, n))
    /\ UNCHANGED <<clock, started, loop, hist, tasks, cmd, nCmd,
                   lastImm, log>>

Markers == UNION {{store[r].users[u] : u \in DOMAIN store[r].users} : r \in Ids}

(* redact: db.redact_event(evt.redacts) *)
Redact(m) ==
    /\ started
    /\ m \in Markers
    /\ store' = RedactEvent(m)
    /\ UNCHANGED <<clock, started, loop, hist, tasks, cmd, nCmd,
                   lastImm, log>>

(* tombstone: db.update_room_id(evt.room_id, replacement_room); the room   *)
(* that is replaced is one the reminders were created in                    *)
Tombstone(old, new) ==
    /\ started
    /\ old # new
    /\ store' = UpdateRoomId(old, new)
    /\ UNCHANGED <<clock, started, loop, hist, tasks, cmd, nCmd,
                   lastImm, log>>

-----------------------------------------------------------------------------
Dates == 0..MaxClock

Next ==
    \/ Tick
    \/ Start
    \/ Stop
    \/ ProcessExit
    \/ ReminderLoopTick
    \/ ReminderLoopFault
    \/ \E t \in Tasks : TaskStart(t)
    \/ \E t \in Tasks : TaskWake(t)
    \/ \E t \in Tasks : TaskSent(t)
    \/ \E t \in Tasks : TaskFailed(t)
    \/ \E u \in Senders, rm \in CmdRooms, d \in Dates, message \in Messages :
          RemindStart(u, rm, d, message)
    \/ RemindRejected
    \/ ReplyDelivered
    \/ RemindInsert
    \/ \E u \in Users, r \in 1..MaxReminds : Cancel(u, r)
    \/ \E u \in Reactors, n \in 1..MaxReminds : SubscribeReact(u, n)
    \/ \E m \in Markers : Redact(m)
    \/ \E old \in CmdRooms, new \in Rooms : Tombstone(old, new)

Spec == Init /\ [][Next]_vars

-----------------------------------------------------------------------------
(* The reminder loop over a store that already holds several reminders     *)
(* when the plugin is loaded (they were created by an earlier run): the     *)
(* loop, the stop and the delivery tasks, with no command or handler        *)

StoredN == 2

InitScan ==
    /\ clock = 0
    /\ started = FALSE
    /\ loop = [pc |-> "none", next_minute |-> 0]
    /\ \E ds \in [1..StoredN -> Dates] :
          store = [i \in 1..StoredN |->
                     [date |-> TruncSec(ds[i]), room_id |-> "ra",
                      message |-> "ping", event_id |-> i,
                      users |-> [x \in Senders |-> CmdMarker(i)]]]
    /\ hist = [i \in 1..StoredN |->
                 [sent |-> 0, rendered |-> {}, dispatched |-> 0, shortcut |-> FALSE,
                  late |-> FALSE, atStart |-> FALSE]]
    /\ tasks = EmptyBag
    /\ cmd = IdleCmd
    /\ nCmd = StoredN
    /\ lastImm = "none"
    /\ log = ""

NextScan ==
    \/ Tick
    \/ Start
    \/ Stop
    \/ ProcessExit
    \/ ReminderLoopTick
    \/ ReminderLoopFault
    \/ \E t \in Tasks : TaskStart(t)
    \/ \E t \in Tasks : TaskWake(t)
    \/ \E t \in Tasks : TaskSent(t)
    \/ \E t \in Tasks : TaskFailed(t)

SpecScan == InitScan /\ [][NextScan]_vars

-----------------------------------------------------------------------------
(* Claims *)

InWindow(r, w) == w <= store[r].date /\ store[r].date < w + MinLen

(* C1: a reminder created once is sent by the transport exactly once, never *)
(* twice, counting the task of the creation path and the task of the loop.  *)
C1_NeverTwoSends == \A r \in Ids : hist[r].sent <= 1

(* C2: the tick whose window contains a stored reminder's date spawns       *)
(* exactly one delivery task for it, a tick whose window does not contain   *)
(* it spawns none, and over all ticks no reminder is dispatched twice.      *)
C2_DispatchOnce ==
    /\ [](\A r \in Ids : hist[r].dispatched <= 1)
    /\ [][ReminderLoopTick =>
            \A r \in Ids :
               LET t == NewTask(r, store[r], "loop")
               IN  IF InWindow(r, loop.next_minute)
                   THEN /\ CopiesIn(t, tasks') = CopiesIn(t, tasks) + 1
                        /\ hist'[r].dispatched = 1
                   ELSE /\ CopiesIn(t, tasks') = CopiesIn(t, tasks)
                        /\ hist'[r].dispatched = hist[r].dispatched]_vars

C2_Witness ==
    \E r \in Ids :
       /\ ~NoUsers(store[r].users)
       /\ hist[r].dispatched = 1
       /\ loop.pc = "sleeping"
       /\ loop.next_minute >= TruncMin(store[r].date) + 2 * MinLen

(* C3: after a fault inside a tick has been logged the loop is still        *)
(* running (unless it was cancelled).                                       *)
C3_LoopSurvivesFault ==
    (log = "Exception in reminder loop" /\ started) => loop.pc = "sleeping"

(* C4: a delivery task that goes on past its emptiness check found the      *)
(* recipient set of its reminder non-empty in the store at that moment.     *)
C4_DecidesOnStore ==
    \A t \in Tasks : (t.origin # "sync" /\ t.pc \in {"sleeping", "sending"}) => t.live

C6_RestartDelivers ==
    \A r \in Ids :
       (/\ hist[r].atStart
        /\ ~NoUsers(store[r].users)
        /\ loop.pc = "sleeping"
        /\ loop.next_minute > store[r].date) => hist[r].dispatched >= 1

(* C7: a reminder persisted with its date already past and not spawned by   *)
(* the shortcut of remind is dispatched by the next tick of the loop.       *)
C7_LateCaughtByNextTick ==
    [][ReminderLoopTick =>
         \A r \in Ids :
            (/\ hist[r].late
             /\ ~hist[r].shortcut
             /\ hist[r].dispatched = 0
             /\ ~NoUsers(store[r].users)) => hist'[r].dispatched = 1]_vars

(* C8: a remind whose date, truncated to the second, equals the current     *)
(* second hands the message to the transport in the step that starts the    *)
(* command, stores nothing, spawns no task, never sleeps, and the command   *)
(* does not return before that send has returned (unless the process       *)
(* ends).                                                                   *)
C8_ImmediateDelivery ==
    /\ [](\A t \in Tasks : t.origin = "sync" =>
             /\ t.pc = "sending"
             /\ cmd.pc = "awaiting"
             /\ t.date = cmd.date)
    /\ [](cmd.pc = "awaiting" => \E t \in Tasks : t.origin = "sync")
    /\ [][(cmd.pc = "idle" /\ cmd'.pc # "idle" /\ cmd'.date = TruncSec(clock)) =>
            /\ cmd'.pc = "awaiting"
            /\ UNCHANGED <<store, hist, loop>>]_vars
    /\ [][(cmd.pc = "awaiting" /\ cmd'.pc # "awaiting" /\ ~ProcessExit) =>
            /\ cmd' = IdleCmd
            /\ lastImm' \in {"sent", "failed"}
            /\ UNCHANGED <<store, hist, loop>>]_vars

C8_Witness == lastImm = "sent" /\ cmd.pc = "idle" /\ store = <<>>

(* C9 as stated: a remind whose date is earlier than the current instant   *)
(* is answered with the error reply and changes nothing.                    *)
C9_EarlierRejected ==
    [][(cmd.pc = "idle" /\ cmd'.pc # "idle" /\ cmd'.date < clock) =>
         /\ cmd'.pc = "rejecting"
         /\ UNCHANGED <<store, hist, tasks, loop, lastImm, log>>]_vars

(* C9 as amended: a remind whose date, truncated to the second, is before   *)
(* the current instant truncated to the second is answered with the error   *)
(* reply and changes nothing: no insert, no task, no send.                  *)
C9_PastRejected ==
    /\ [][(cmd.pc = "idle" /\ cmd'.pc # "idle" /\ cmd'.date < TruncSec(clock)) =>
            /\ cmd'.pc = "rejecting"
            /\ UNCHANGED <<store, hist, tasks, loop, lastImm, log>>]_vars
    /\ [][(cmd.pc = "rejecting" /\ cmd' # cmd /\ ~ProcessExit) =>
            /\ cmd' = IdleCmd
            /\ UNCHANGED <<store, hist, tasks, loop, lastImm, log>>]_vars

C9_Witness == cmd.pc = "rejecting" /\ cmd.date < TruncSec(clock)

(* C10: a failure of the transport inside a delivery is logged by that      *)
(* delivery and goes no further: the loop, the store and every other task   *)
(* are as before, and remind does not raise on the immediate path.          *)
C10_FailureIsolated ==
    /\ [](cmd.pc # "raised")
    /\ [][\A t \in Tasks :
            TaskFailed(t) =>
               /\ log' = "Failed to send reminder"
               /\ UNCHANGED <<loop, store, hist>>
               /\ \A o \in Tasks \ {t} : CopiesIn(o, tasks') = CopiesIn(o, tasks)
               /\ cmd' = IF t.origin = "sync" THEN IdleCmd ELSE cmd]_vars

C10_Witness ==
    /\ log = "Failed to send reminder"
    /\ loop.pc = "sleeping"
    /\ \E t \in Tasks : t.pc = "sending"

(* C11: stop() ends the reminder loop and nothing else: the loop scans no   *)
(* window while the plugin is stopped, every delivery task pending at the   *)
(* stop is still pending after it, and a pending task takes its next step   *)
(* (check, wake-up at its date, send) whether or not the loop runs.         *)
C11_StopKeepsTasks ==
    /\ [](~started => loop.pc # "sleeping")
    /\ [](~started => ~ENABLED ReminderLoopTick)
    /\ [](\A t \in Tasks :
             /\ t.pc = "start" => ENABLED TaskStart(t)
             /\ (t.pc = "sleeping" /\ clock >= t.date) => ENABLED TaskWake(t)
             /\ t.pc = "sending" => ENABLED TaskSent(t))
    /\ [][Stop => /\ tasks' = tasks
                  /\ loop'.pc \in {"stopped", "crashed"}
                  /\ UNCHANGED <<store, hist>>]_vars

C11_Witness ==
    /\ loop.pc = "stopped"
    /\ \E t \in Tasks : t.origin = "loop" /\ t.pc = "sleeping" /\ clock < t.date

(* C12: every send of a stored reminder goes to the room the store holds    *)
(* for it at that moment: after a tombstone has rewritten the room, no send *)
(* goes to the old room, also not the send of a task dispatched before.     *)
C12_SendsToCurrentRoom ==
    [][\A t \in Tasks :
         (TaskSent(t) /\ t.origin # "sync") =>
            t.room_id = store[t.rid].room_id]_vars

(* C13: a user who opted in by a reaction and opted out again before the    *)
(* delivery task of the reminder begins its delivery is not among the       *)
(* recipients the task goes on to address.                                  *)
C13_OptOutBeforeDelivery ==
    [][\A t \in Tasks :
         TaskStart(t) =>
            \A u \in DOMAIN t.users :
               t.users[u].kind = "react" => u \in DOMAIN store[t.rid].users]_vars

(* C14: a cancel command for an id that matches no stored reminder ends     *)
(* with a reply and never with an exception that escapes the command.       *)
C14_NotFoundHandled == log # "Unhandled exception in cancel"

(* C15: no reminder is handed to the transport before its date: a task      *)
(* whose residual gap is positive at its check suspends, a task whose gap   *)
(* is zero or negative goes to the send at once, and whenever a task is at  *)
(* the send the clock is at or past the reminder's date.                    *)
C15_NeverEarly ==
    /\ [](\A t \in Tasks : t.pc = "sending" => clock >= t.date)
    /\ [][\A t \in Tasks :
            (TaskStart(t) /\ ~NoUsers(t.users)) =>
               \E t2 \in BagToSet(tasks') :
                  /\ t2.rid = t.rid /\ t2.origin = t.origin /\ t2.date = t.date
                  /\ t2.pc = IF t.date > clock THEN "sleeping" ELSE "sending"
                  /\ CopiesIn(t2, tasks') = CopiesIn(t2, tasks) + 1]_vars

C15_Witness ==
    \E t \in Tasks : t.pc = "sleeping" /\ clock < t.date /\ loop.pc = "sleeping"

(* C16: the window a scan is made for starts at a minute boundary (second   *)
(* and microsecond zero), the scan is not made before the clock has reached *)
(* that boundary, and it dispatches exactly the reminders whose date is in  *)
(* the half-open minute that starts there.                                  *)
C16_ScanAtBoundary ==
    /\ [](loop.pc = "sleeping" =>
             /\ loop.next_minute % MinLen = 0
             /\ loop.next_minute >= MinLen)
    /\ [][ReminderLoopTick =>
            /\ clock >= loop.next_minute
            /\ {r \in Ids : hist'[r].dispatched # hist[r].dispatched} =
                  {r \in Ids : /\ loop.next_minute <= store[r].date
                               /\ store[r].date < loop.next_minute + MinLen}
            /\ loop'.next_minute > clock]_vars

C16_Witness ==
    \E r \in Ids :
       /\ hist[r].dispatched = 1
       /\ store[r].date % MinLen = 0
       /\ loop.pc = "sleeping"

(* C17: a tick spawns its tasks and is back in the sleep for the next       *)
(* minute boundary in the same step, and whenever that boundary is reached  *)
(* the scan can be made, whatever delivery tasks are still pending.         *)
C17_DispatchDoesNotBlock ==
    /\ [][ReminderLoopTick =>
            /\ loop'.pc = "sleeping"
            /\ loop'.next_minute = NextMinute(clock)]_vars
    /\ []((loop.pc = "sleeping" /\ clock >= loop.next_minute) =>
             ENABLED ReminderLoopTick)

C17_Witness ==
    /\ loop.pc = "sleeping"
    /\ clock >= loop.next_minute
    /\ \E t \in Tasks :
          /\ t.origin = "loop"
          /\ t.pc \in {"sleeping", "sending"}
          /\ t.date < loop.next_minute

(* C18: the loop is cancelled only in its sleep (whenever the plugin is     *)
(* started the loop is in the sleep or has ended), a stop changes no task,  *)
(* and in every step the reminders that get a task of the loop are either   *)
(* none or all the reminders of the window being scanned.                   *)
C18_DispatchAllOrNone ==
    /\ [](started => loop.pc \in {"sleeping", "crashed"})
    /\ [][Stop => tasks' = tasks /\ hist' = hist]_vars
    /\ [][LET spawned == {r \in Ids :
                            CopiesIn(NewTask(r, store[r], "loop"), tasks') >
                               CopiesIn(NewTask(r, store[r], "loop"), tasks)}
              found == {r \in Ids : InWindow(r, loop.next_minute)}
          IN  \/ spawned = {}
              \/ loop.pc = "sleeping" /\ spawned = found]_vars

C18_Witness ==
    /\ loop.pc = "stopped"
    /\ \E t1 \in Tasks, t2 \in Tasks :
          /\ t1.rid # t2.rid
          /\ t1.origin = "loop" /\ t2.origin = "loop"
          /\ TruncMin(t1.date) = TruncMin(t2.date)

(* C19: once a task is past its emptiness check the store's recipients no   *)
(* longer matter to its send: an opt-in, a cancel or a redaction changes no *)
(* pending task, the task that wakes from its sleep goes to the send with   *)
(* the recipients it held, and the message addresses exactly those.         *)
C19_SnapshotDecidesSend ==
    /\ [][(\/ \E u \in Reactors, n \in 1..MaxReminds : SubscribeReact(u, n)
           \/ \E u \in Users, id \in 1..MaxReminds : Cancel(u, id)
           \/ \E m \in Markers : Redact(m)) => tasks' = tasks]_vars
    /\ [][\A t \in Tasks :
            TaskWake(t) =>
               CopiesIn([t EXCEPT !.pc = "sending"], tasks') =
                  CopiesIn([t EXCEPT !.pc = "sending"], tasks) + 1]_vars
    /\ [][\A t \in Tasks :
            (TaskSent(t) /\ t.origin # "sync") =>
               /\ hist'[t.rid].sent = hist[t.rid].sent + 1
               /\ hist'[t.rid].rendered = DOMAIN t.users]_vars

C19_Witness ==
    \E t \in Tasks :
       /\ t.origin # "sync"
       /\ t.pc = "sleeping"
       /\ t.live
       /\ NoUsers(store[t.rid].users)

(* C20: whatever path delivers a reminder that was created with an empty    *)
(* message and no reply reference, the text handed to the transport after   *)
(* the recipients is never empty (it is "ping").                            *)
C20_NeverEmptyMessage ==
    \A t \in Tasks : t.pc = "sending" => t.message # ""

====
